---- MODULE Spec2Model ----
(***************************************************************************)
(* Model of humanmade/ssm: the agent-message wire codec (agent-message.ts, *)
(* channel-messages.ts) and the AWSSSMSession classes (aws-ssm-session.ts).*)
(*                                                                         *)
(* Conventions.                                                            *)
(*  - A JavaScript string is a sequence of UTF-16 code units (0..65535).   *)
(*  - A Uint8Array is a sequence of bytes (0..255); the source's 0-based   *)
(*    offset k is element k+1.                                             *)
(*  - A JavaScript number that may exceed 31 bits (Date.now(), a sequence  *)
(*    number handed to encode) is a "wide" number: the sequence of its     *)
(*    base-256 digits, most significant first.  Numbers the code computes  *)
(*    with 32-bit operators are plain integers in -2^31 .. 2^31-1.         *)
(***************************************************************************)
EXTENDS Integers, Sequences, FiniteSets, TLC

(***************************************************************************)
(* channel-messages.ts                                                     *)
(***************************************************************************)
MessageType ==
  [ InteractiveShellMessage |-> <<105,110,116,101,114,97,99,116,105,118,101,95,115,104,101,108,108>>,
    TaskReplyMessage        |-> <<97,103,101,110,116,95,116,97,115,107,95,114,101,112,108,121>>,
    TaskCompleteMessage     |-> <<97,103,101,110,116,95,116,97,115,107,95,99,111,109,112,108,101,116,101>>,
    AcknowledgeMessage      |-> <<97,99,107,110,111,119,108,101,100,103,101>>,
    AgentSessionState       |-> <<97,103,101,110,116,95,115,101,115,115,105,111,110,95,115,116,97,116,101>>,
    ChannelClosedMessage    |-> <<99,104,97,110,110,101,108,95,99,108,111,115,101,100>>,
    OutputStreamDataMessage |-> <<111,117,116,112,117,116,95,115,116,114,101,97,109,95,100,97,116,97>>,
    InputStreamDataMessage  |-> <<105,110,112,117,116,95,115,116,114,101,97,109,95,100,97,116,97>>,
    PausePublicationMessage |-> <<112,97,117,115,101,95,112,117,98,108,105,99,97,116,105,111,110>>,
    StartPublicationMessage |-> <<115,116,97,114,116,95,112,117,98,108,105,99,97,116,105,111,110>> ]

PayloadType ==
  [ Output |-> 1, Error |-> 2, Size |-> 3, Parameter |-> 4, HandshakeRequest |-> 5,
    HandshakeResponse |-> 6, HandshakeComplete |-> 7, EncChallengeRequest |-> 8,
    EncChallengeResponse |-> 9, Flag |-> 10 ]

(***************************************************************************)
(* agent-message.ts: field widths and offsets                              *)
(***************************************************************************)
Length ==
  [ HL |-> 4, MessageType |-> 32, SchemaVersion |-> 4, CreatedDate |-> 8,
    SequenceNumber |-> 8, Flags |-> 8, MessageId |-> 16, PayloadDigest |-> 32,
    PayloadType |-> 4, PayloadLength |-> 4 ]

\* The members of enum Offset in declaration order.  The first is 0; each
\* other one is the member before it plus that member's Length.
OffsetMembers ==
  << "HL", "MessageType", "SchemaVersion", "CreatedDate", "SequenceNumber", "Flags",
     "MessageId", "PayloadDigest", "PayloadType", "PayloadLength", "Payload" >>

Offset ==
  LET at[i \in 1..11] == IF i = 1 THEN 0 ELSE at[i - 1] + Length[OffsetMembers[i - 1]]
  IN  [ member \in { OffsetMembers[i] : i \in 1..11 } |->
          at[CHOOSE i \in 1..11 : OffsetMembers[i] = member] ]

(***************************************************************************)
(* JavaScript primitives the codec relies on                               *)
(***************************************************************************)
Min(a, b) == IF a < b THEN a ELSE b

\* Uint8Array.prototype.slice(start, end): indices are clamped to the buffer.
Slice(buffer, start, end) ==
  SubSeq(buffer, Min(start, Len(buffer)) + 1, Min(end, Len(buffer)))

\* The wide number of an integer 0 <= n < 2^31.
Wide(n) ==
  << (n \div 16777216) % 256, (n \div 65536) % 256, (n \div 256) % 256, n % 256 >>

\* Byte k (k = 0 is the least significant) of a wide number.
WideByte(value, k) == IF k < Len(value) THEN value[Len(value) - k] ELSE 0

\* value > 0 for a wide number.
WidePositive(value) == \E i \in 1..Len(value) : value[i] # 0

\* The wide number without its leading zero digits.
RECURSIVE WideNorm(_)
WideNorm(value) ==
  IF value # <<>> /\ Head(value) = 0 THEN WideNorm(Tail(value)) ELSE value

\* The integer n (as computed by the 32-bit operators) denotes the wide number.
WideEquals(value, n) == n >= 0 /\ WideNorm(value) = WideNorm(Wide(n))

\* acc << 8 on a number already in the signed 32-bit range: ToInt32, shift,
\* keep the low 32 bits as a signed value.
Shl8(acc) ==
  LET low == acc % 16777216
  IN  IF low >= 8388608 THEN (low - 16777216) * 256 ELSE low * 256

\* TextDecoder('utf8').decode: the WHATWG UTF-8 decoder, stated per byte.  A
\* lead byte followed by all the continuation bytes it needs yields its code
\* point (a surrogate pair above U+FFFF); a lead byte whose sequence is cut
\* short by a byte out of range or by the end of the input yields U+FFFD and
\* decoding resumes at the offending byte; a continuation byte that no lead
\* byte accepted, and a byte that cannot occur in UTF-8, yield U+FFFD.
Utf16(cp) ==
  IF cp < 65536 THEN << cp >>
  ELSE << 55296 + ((cp - 65536) \div 1024), 56320 + ((cp - 65536) % 1024) >>

Utf8Needed(b) ==
  IF b >= 194 /\ b <= 223 THEN 1
  ELSE IF b >= 224 /\ b <= 239 THEN 2
  ELSE IF b >= 240 /\ b <= 244 THEN 3
  ELSE 0

\* How many of the bytes after the lead byte at p the decoder accepts.
Utf8Accepted(bytes, p) ==
  LET b     == bytes[p]
      lower == IF b = 224 THEN 160 ELSE IF b = 240 THEN 144 ELSE 128
      upper == IF b = 237 THEN 159 ELSE IF b = 244 THEN 143 ELSE 191
      a1    == p + 1 <= Len(bytes) /\ bytes[p + 1] >= lower /\ bytes[p + 1] <= upper
      a2    == a1 /\ p + 2 <= Len(bytes) /\ bytes[p + 2] >= 128 /\ bytes[p + 2] <= 191
      a3    == a2 /\ p + 3 <= Len(bytes) /\ bytes[p + 3] >= 128 /\ bytes[p + 3] <= 191
      n     == Utf8Needed(b)
  IN  IF n >= 3 /\ a3 THEN 3 ELSE IF n >= 2 /\ a2 THEN 2 ELSE IF n >= 1 /\ a1 THEN 1 ELSE 0

\* The code units the byte at position j contributes.
Utf8Out(bytes, j) ==
  LET b == bytes[j] IN
  IF b <= 127 THEN << b >>
  ELSE IF b <= 191 THEN
         IF \E d \in 1..3 : j - d >= 1 /\ Utf8Needed(bytes[j - d]) > 0
                            /\ Utf8Accepted(bytes, j - d) >= d
         THEN <<>> ELSE << 65533 >>
  ELSE IF Utf8Needed(b) = 0 \/ Utf8Accepted(bytes, j) < Utf8Needed(b) THEN << 65533 >>
  ELSE IF Utf8Needed(b) = 1 THEN Utf16((b % 32) * 64 + (bytes[j + 1] % 64))
  ELSE IF Utf8Needed(b) = 2
         THEN Utf16((b % 16) * 4096 + (bytes[j + 1] % 64) * 64 + (bytes[j + 2] % 64))
  ELSE Utf16((b % 8) * 262144 + (bytes[j + 1] % 64) * 4096
             + (bytes[j + 2] % 64) * 64 + (bytes[j + 3] % 64))

RECURSIVE Utf8Decode(_, _, _)
Utf8Decode(bytes, lo, hi) ==
  IF lo > hi THEN <<>>
  ELSE IF lo = hi THEN Utf8Out(bytes, lo)
  ELSE Utf8Decode(bytes, lo, (lo + hi) \div 2) \o Utf8Decode(bytes, (lo + hi) \div 2 + 1, hi)

\* decoder.decode(bytes) with the default ignoreBOM = false: a leading byte
\* order mark is not part of the result.
TextDecode(bytes) ==
  LET units == Utf8Decode(bytes, 1, Len(bytes))
  IN  IF units # <<>> /\ Head(units) = 65279 THEN Tail(units) ELSE units

\* String.prototype.replace( /\0/g, '' )
NotNul(c) == c # 0
StripNul(str) == SelectSeq(str, NotNul)

\* The code units String.prototype.trimEnd removes (WhiteSpace and
\* LineTerminator of ECMAScript).
WhiteSpace ==
  { 9, 10, 11, 12, 13, 32, 160, 5760, 8232, 8233, 8239, 8287, 12288, 65279 }
    \cup (8192..8202)

trimEnd(str) ==
  LET kept == { i \in 1..Len(str) : str[i] \notin WhiteSpace }
  IN  IF kept = {} THEN <<>>
      ELSE SubSeq(str, 1, CHOOSE i \in kept : \A k \in kept : k <= i)

\* byte.toString( 16 ).padStart( 2, '0' )
HexDigit(d) == IF d < 10 THEN 48 + d ELSE 87 + d
HexByte(byte) == << HexDigit(byte \div 16), HexDigit(byte % 16) >>

\* Number -> decimal text, as JSON.stringify writes a non-negative integer.
RECURSIVE Decimal(_)
Decimal(n) ==
  IF n < 10 THEN << 48 + n >> ELSE Decimal(n \div 10) \o << 48 + (n % 10) >>

\* sha256.update( payload ).digest(): 32 bytes determined by the payload.  The
\* digest is written by encode and never read back by decode; the model keeps
\* its width and its dependence on the payload only.
sha256(payload) ==
  [ i \in 1..32 |->
      IF payload = <<>> THEN (7 * i) % 256
      ELSE (payload[((i - 1) % Len(payload)) + 1] + 31 * Len(payload) + 7 * i) % 256 ]

(***************************************************************************)
(* agent-message.ts: the codec                                             *)
(***************************************************************************)
decodeText(buffer, start, end) == StripNul(TextDecode(Slice(buffer, start, end)))

\* Mutant: a value longer than its slot is cut to the slot instead of rejected.
putString_Truncate(buffer, start, end, value) ==
  [ threw  |-> FALSE,
    buffer |-> [ p \in 1..Len(buffer) |->
                  IF p > start /\ p <= end
                  THEN IF p - start > Len(value) THEN 32 ELSE value[p - start] % 256
                  ELSE buffer[p] ] ]

\* putString: [threw, buffer].  Every byte of the slot is written: the code
\* unit of the string (a Uint8Array stores it modulo 256) or a space.
putString(buffer, start, end, value) ==
  LET len == end - start IN
  IF len < Len(value) THEN [ threw |-> TRUE, buffer |-> buffer ]
  ELSE [ threw  |-> FALSE,
         buffer |-> [ p \in 1..Len(buffer) |->
                       IF p > start /\ p <= start + len
                       THEN IF p - start > Len(value) THEN 32 ELSE value[p - start] % 256
                       ELSE buffer[p] ] ]

RECURSIVE reduceInt(_, _, _)
reduceInt(bytes, i, acc) ==
  IF i > Len(bytes) THEN acc ELSE reduceInt(bytes, i + 1, Shl8(acc) + bytes[i])

decodeInt(buffer, start, end) == reduceInt(Slice(buffer, start, end), 1, 0)

\* putInt: ( value >> 24 ) & 0xff, ... , value & 0xff are bytes 3..0 of value.
putInt(buffer, pos, value) ==
  [ p \in 1..Len(buffer) |->
      IF p > pos /\ p <= pos + 4 THEN WideByte(value, pos + 4 - p) ELSE buffer[p] ]

putLong(buffer, pos, value) == putInt(buffer, pos + 4, value)

\* buffer.reduce( ( str, byte ) => str + hex( byte ), '' )
longToHex(buffer) ==
  [ i \in 1..(2 * Len(buffer)) |-> HexByte(buffer[(i + 1) \div 2])[2 - (i % 2)] ]

\* Mutant: the two halves are read in the order they are stored.
decodeUuid_NoFlip(buffer, start, end) ==
  LET bytes == Slice(buffer, start, end)
      raw   == longToHex(Slice(bytes, 0, 8)) \o longToHex(Slice(bytes, 8, 16))
  IN  SubSeq(raw, 1, 8) \o << 45 >> \o SubSeq(raw, 9, 12) \o << 45 >> \o
      SubSeq(raw, 13, 16) \o << 45 >> \o SubSeq(raw, 17, 20) \o << 45 >> \o
      SubSeq(raw, 21, Len(raw))

decodeUuid(buffer, start, end) ==
  LET bytes            == Slice(buffer, start, end)
      leastSignificant == Slice(bytes, 0, 8)
      mostSignificant  == Slice(bytes, 8, 16)
      raw              == longToHex(mostSignificant) \o longToHex(leastSignificant)
  IN  SubSeq(raw, 1, 8) \o << 45 >> \o SubSeq(raw, 9, 12) \o << 45 >> \o
      SubSeq(raw, 13, 16) \o << 45 >> \o SubSeq(raw, 17, 20) \o << 45 >> \o
      SubSeq(raw, 21, Len(raw))

decode(buffer) ==
  LET headerLength == decodeInt(buffer, Offset.HL, Offset.HL + Length.HL)
  IN  [ MessageType    |-> trimEnd(decodeText(buffer, Offset.MessageType,
                                              Offset.MessageType + Length.MessageType)),
        SequenceNumber |-> decodeInt(buffer, Offset.SequenceNumber,
                                     Offset.SequenceNumber + Length.SequenceNumber),
        MessageId      |-> decodeUuid(buffer, Offset.MessageId,
                                      Offset.MessageId + Length.MessageId),
        PayloadType    |-> decodeInt(buffer, Offset.PayloadType,
                                     Offset.PayloadType + Length.PayloadType),
        Payload        |-> decodeText(buffer, headerLength + Length.PayloadLength,
                                      Len(buffer)) ]

\* Mutant: the flag is computed from SequenceNumber >= 0.
FlagsValue_NeverFirst(sequenceNumber) == Wide(0)

\* message.SequenceNumber > 0 ? 0b00 : 0b01
FlagsValue(sequenceNumber) == IF WidePositive(sequenceNumber) THEN Wide(0) ELSE Wide(1)

\* encode( message ): [threw, data].  uuid is the 16 bytes uuidv4 writes and
\* now the value of Date.now(), both chosen by the caller of the operator.
encode(message, uuid, now) ==
  LET payloadLength == Len(message.Payload)
      totalLength   == Offset.PayloadLength + payloadLength + 4
      d0 == [ p \in 1..totalLength |-> 0 ]
      d1 == putInt(d0, Offset.HL, Wide(Offset.PayloadLength))
      t  == putString(d1, Offset.MessageType, Offset.MessageType + Length.MessageType,
                      message.MessageType)
      d3 == putInt(t.buffer, Offset.SchemaVersion, Wide(1))
      d4 == putLong(d3, Offset.CreatedDate, now)
      d5 == putLong(d4, Offset.SequenceNumber, message.SequenceNumber)
      d6 == putLong(d5, Offset.Flags, FlagsValue(message.SequenceNumber))
      d7 == [ p \in 1..totalLength |->
                IF p > Offset.MessageId /\ p <= Offset.MessageId + 16
                THEN uuid[p - Offset.MessageId] ELSE d6[p] ]
      dg == sha256(message.Payload)
      d8 == [ p \in 1..totalLength |->
                IF p > Offset.PayloadDigest /\ p <= Offset.PayloadDigest + 32
                THEN dg[p - Offset.PayloadDigest] ELSE d7[p] ]
      d9 == putInt(d8, Offset.PayloadType, Wide(message.PayloadType))
      dA == putInt(d9, Offset.PayloadLength, Wide(payloadLength))
      s  == putString(dA, Offset.Payload, totalLength, message.Payload)
  IN  IF t.threw \/ s.threw THEN [ threw |-> TRUE, data |-> <<>> ]
      ELSE [ threw |-> FALSE, data |-> s.buffer ]

(***************************************************************************)
(* The uuid library and the clock                                          *)
(***************************************************************************)
\* The canonical 8-4-4-4-12 text of 16 UUID bytes (uuidv4() without a buffer).
UuidString(bytes) ==
  LET raw == longToHex(bytes)
  IN  SubSeq(raw, 1, 8) \o << 45 >> \o SubSeq(raw, 9, 12) \o << 45 >> \o
      SubSeq(raw, 13, 16) \o << 45 >> \o SubSeq(raw, 17, 20) \o << 45 >> \o
      SubSeq(raw, 21, 32)

\* Values uuidv4 may produce (version nibble 4, variant bits 10): one whose
\* two halves differ and one whose two halves are equal.
Uuids ==
  { << 17,34,51,68, 85,102, 71,136, 153,170, 187,204,221,238,255,0 >>,
    << 144,1,2,3, 4,5, 70,7, 144,1, 2,3,4,5,70,7 >> }

\* Values of Date.now() (epoch milliseconds, above 2^40), as wide numbers.
Nows == { << 1,161,177,4,32,0 >>, << 1,162,49,4,32,123 >> }

\* The clock while the sessions run (no session reads the CreatedDate field).
SessionNows == { << 1,161,177,4,32,0 >> }

(***************************************************************************)
(* State                                                                   *)
(***************************************************************************)
VARIABLES
  codec,       \* a caller of the codec: its message, encode's result, decode's result
  readyState,  \* webSocket.readyState (0 CONNECTING, 1 OPEN, 2 CLOSING, 3 CLOSED)
  session,     \* the AWSSSMSession objects constructed: class (1 or 2) -> fields
  call,        \* the operation or transport callback that ran last, with its argument
  effect       \* what it did, per class: the webSocket.send and emit calls in
               \* order, and the exception it threw ("" if none)

vars == << codec, readyState, session, call, effect >>

sessionVars == << readyState, session, call, effect >>

\* lastAcknowledgedSequenceNumber: number | undefined is <<n>> or <<>>.
undefined == <<>>

NoDecoded ==
  [ MessageType |-> <<>>, SequenceNumber |-> 0, MessageId |-> <<>>,
    PayloadType |-> 0, Payload |-> <<>> ]

NoFx == [ trace |-> <<>>, thrown |-> "" ]

\* new Map()
EmptyMap == [ k \in {} |-> <<>> ]

\* The token the sessions are constructed with.
tokenValue == << 116, 111, 107 >>

\* The fields of a session of the given class right after construction.
NewSession(class) ==
  IF class = 1
  THEN [ outgoingSequenceNumber |-> 0, outputMap |-> EmptyMap,
         connectionClosed |-> FALSE, connectionTerminated |-> FALSE,
         lastAcknowledgedSequenceNumber |-> undefined, paused |-> FALSE ]
  ELSE [ outgoingSequenceNumber |-> 0, outputMap |-> EmptyMap,
         connectionClosed |-> FALSE, connectionTerminated |-> FALSE ]

\* Sessions of the given classes are constructed; their sockets are connecting.
InitSession(classes) ==
  /\ readyState = 0
  /\ session = [ c \in classes |-> NewSession(c) ]
  /\ call = [ op |-> "constructor", data |-> <<>> ]
  /\ effect = [ c \in classes |-> NoFx ]

(***************************************************************************)
(* The codec on its own: a caller encodes a message and decodes the frame  *)
(***************************************************************************)
MaxPayloadLen == 2

\* Code units a payload is built from: 'a', NUL, U+00E9, U+20AC.
PayloadUnits == { 97, 0, 233, 8364 }

RECURSIVE Strings(_, _)
Strings(units, n) ==
  IF n = 0 THEN { <<>> }
  ELSE Strings(units, n - 1) \cup
       { << u >> \o s : u \in units, s \in { t \in Strings(units, n - 1) : Len(t) = n - 1 } }

Xs(n) == [ i \in 1..n |-> 120 ]

CodecMessageTypes ==
  { MessageType.InputStreamDataMessage, MessageType.AcknowledgeMessage,
    Xs(Length.MessageType), Xs(Length.MessageType + 1) }

\* 0, 1, 256, 2^31 - 1, 2^31, 2^32 - 1, 2^32, 2^32 + 1
CodecSequenceNumbers ==
  { Wide(0), Wide(1), Wide(256), << 127,255,255,255 >>, << 128,0,0,0 >>,
    << 255,255,255,255 >>, << 1,0,0,0,0 >>, << 1,0,0,0,1 >> }

CodecPayloadTypes == { PayloadType.Output, PayloadType.Size, PayloadType.Flag }

CodecMessages ==
  [ MessageType : CodecMessageTypes, SequenceNumber : CodecSequenceNumbers,
    PayloadType : CodecPayloadTypes, Payload : Strings(PayloadUnits, MaxPayloadLen) ]

InitCodecIdle ==
  codec = [ pc |-> "idle", message |-> [ MessageType |-> <<>>, SequenceNumber |-> <<>>,
                                         PayloadType |-> 0, Payload |-> <<>> ],
            uuid |-> <<>>, now |-> <<>>, data |-> <<>>, decoded |-> NoDecoded ]

InitCodec ==
  /\ \E m \in CodecMessages :
       codec = [ pc |-> "input", message |-> m, uuid |-> <<>>, now |-> <<>>,
                 data |-> <<>>, decoded |-> NoDecoded ]
  /\ InitSession({})

\* data = encode( message ), or the exception encode throws.
Encode ==
  /\ codec.pc = "input"
  /\ \E uuid \in Uuids, now \in Nows :
       LET r == encode(codec.message, uuid, now)
       IN  codec' = [ codec EXCEPT !.pc = IF r.threw THEN "threw" ELSE "encoded",
                                   !.uuid = uuid, !.now = now, !.data = r.data ]
  /\ UNCHANGED sessionVars

\* decoded = decode( data )
Decode ==
  /\ codec.pc = "encoded"
  /\ codec' = [ codec EXCEPT !.pc = "decoded", !.decoded = decode(codec.data) ]
  /\ UNCHANGED sessionVars

NextCodec == Encode \/ Decode

SpecCodec == InitCodec /\ [][NextCodec]_vars

(***************************************************************************)
(* JSON as the sessions use it                                             *)
(***************************************************************************)
IsPrefix(p, str) == Len(p) <= Len(str) /\ SubSeq(str, 1, Len(p)) = p

RECURSIVE ParseDecimal(_, _)
ParseDecimal(digits, acc) ==
  IF digits = <<>> THEN acc
  ELSE ParseDecimal(Tail(digits), 10 * acc + (Head(digits) - 48))

JsonAckPrefix ==
  <<123,34,65,99,107,110,111,119,108,101,100,103,101,100,77,101,115,115,97,103,101,
    83,101,113,117,101,110,99,101,78,117,109,98,101,114,34,58>>

JsonOutputPrefix == <<123,34,79,117,116,112,117,116,34,58,34>>

\* JSON.parse on the control payloads of this protocol: [threw, value], value a
\* record of the fields present.  Recognised are the empty object, an object
\* with the single number AcknowledgedMessageSequenceNumber and an object with
\* the single string Output (no escapes); any other text considered here is
\* not JSON and throws SyntaxError.
JSONparse(text) ==
  LET n   == Len(text)
      num == SubSeq(text, Len(JsonAckPrefix) + 1, n - 1)
      str == SubSeq(text, Len(JsonOutputPrefix) + 1, n - 2)
  IN  IF text = << 123, 125 >> THEN [ threw |-> FALSE, value |-> [ x \in {} |-> 0 ] ]
      ELSE IF /\ IsPrefix(JsonAckPrefix, text) /\ text[n] = 125 /\ num # <<>>
              /\ \A i \in 1..Len(num) : num[i] \in 48..57
           THEN [ threw |-> FALSE,
                  value |-> [ AcknowledgedMessageSequenceNumber |-> ParseDecimal(num, 0) ] ]
      ELSE IF /\ IsPrefix(JsonOutputPrefix, text) /\ n >= Len(JsonOutputPrefix) + 2
              /\ text[n - 1] = 34 /\ text[n] = 125
              /\ \A i \in 1..Len(str) : str[i] >= 32 /\ str[i] \notin { 34, 92 }
           THEN [ threw |-> FALSE, value |-> [ Output |-> str ] ]
      ELSE [ threw |-> TRUE, value |-> [ x \in {} |-> 0 ] ]

\* JSON.stringify of the acknowledge payload (line 169); the type and the id
\* need no escaping.
AckPayload(messageType, messageId, messageSequenceNumber) ==
  <<123,34,65,99,107,110,111,119,108,101,100,103,101,100,77,101,115,115,97,103,101,
    84,121,112,101,34,58,34>> \o messageType \o
  <<34,44,34,65,99,107,110,111,119,108,101,100,103,101,100,77,101,115,115,97,103,101,
    73,100,34,58,34>> \o messageId \o
  <<34,44,34,65,99,107,110,111,119,108,101,100,103,101,100,77,101,115,115,97,103,101,
    83,101,113,117,101,110,99,101,78,117,109,98,101,114,34,58>> \o
  (IF messageSequenceNumber < 0 THEN << 45 >> \o Decimal(0 - messageSequenceNumber)
   ELSE Decimal(messageSequenceNumber)) \o
  <<44,34,73,115,83,101,113,117,101,110,116,105,97,108,77,101,115,115,97,103,101,34,
    58,116,114,117,101,125>>

\* JSON.stringify( { cols, rows } )
SizePayload(cols, rows) ==
  <<123,34,99,111,108,115,34,58>> \o Decimal(cols) \o
  <<44,34,114,111,119,115,34,58>> \o Decimal(rows) \o << 125 >>

\* JSON.stringify of the handshake object sent when the socket opens.
HandshakeText(requestId, token) ==
  <<123,34,77,101,115,115,97,103,101,83,99,104,101,109,97,86,101,114,115,105,111,110,
    34,58,34,49,46,48,34,44,34,82,101,113,117,101,115,116,73,100,34,58,34>> \o requestId \o
  <<34,44,34,84,111,107,101,110,86,97,108,117,101,34,58,34>> \o token \o << 34, 125 >>

(***************************************************************************)
(* Effects of a handler: calls of webSocket.send and of emit, in order     *)
(***************************************************************************)
\* webSocket.send( data ): throws while the socket is CONNECTING; otherwise the
\* data is handed to the socket (which transmits it when OPEN and discards it
\* when CLOSING or CLOSED).
wsSend(fx, rs, name, data) ==
  IF rs = 0 THEN [ fx EXCEPT !.thrown = "InvalidStateError" ]
  ELSE [ fx EXCEPT !.trace = Append(@, [ kind |-> "send", name |-> name, data |-> data ]) ]

\* webSocket.send( encode( message ) ): an exception of encode propagates and
\* nothing is sent.
wsSendEncoded(fx, rs, encoded) ==
  IF encoded.threw THEN [ fx EXCEPT !.thrown = "Error" ]
  ELSE wsSend(fx, rs, "binary", encoded.data)

\* emit( eventName, data ): every callback registered for eventName is called.
emit(fx, eventName, data) ==
  [ fx EXCEPT !.trace = Append(@, [ kind |-> "emit", name |-> eventName, data |-> data ]) ]

\* Map.prototype.set
MapSet(map, key, value) ==
  [ k \in DOMAIN map \cup { key } |-> IF k = key THEN value ELSE map[k] ]

(***************************************************************************)
(* The remote agent: frames it delivers to the socket                      *)
(***************************************************************************)
MaxSeq == 3

MaxAck == 2

Pad(str, width) == [ i \in 1..width |-> IF i <= Len(str) THEN str[i] ELSE 32 ]

\* A frame in the wire layout of agent-message.ts, as the agent serialises
\* it: 64-bit fields big-endian, payload in UTF-8 (the payloads are ASCII).
RemoteFrame(type, seq, id, ptype, payload) ==
  Wide(Offset.PayloadLength) \o Pad(type, Length.MessageType) \o Wide(1) \o
  << 0, 0, 1, 161, 177, 4, 32, 0 >> \o Wide(0) \o Wide(seq) \o
  Wide(0) \o Wide(IF seq = 0 THEN 1 ELSE 0) \o id \o sha256(payload) \o
  Wide(ptype) \o Wide(Len(payload)) \o payload

\* MessageId fields of the agent's frames.
RemoteIds ==
  << << 1,2,3,4,5,6,7,8, 9,10,11,12,13,14,15,16 >>,
     << 161,162,163,164,165,166,167,168, 169,170,171,172,173,174,175,176 >> >>

AckJson(n) == JsonAckPrefix \o Decimal(n) \o << 125 >>

OutputJson(text) == JsonOutputPrefix \o text \o << 34, 125 >>

OutputFrame(seq, id, text) ==
  RemoteFrame(MessageType.OutputStreamDataMessage, seq, id, PayloadType.Output, text)

\* A frame with text 'a', a frame with the same MessageId and another text,
\* and a frame with another MessageId.
OutputFrames ==
  { OutputFrame(0, RemoteIds[1], << 97 >>), OutputFrame(0, RemoteIds[1], << 98 >>),
    OutputFrame(1, RemoteIds[2], << 97 >>) }

StartFrame ==
  RemoteFrame(MessageType.StartPublicationMessage, 0, RemoteIds[1], PayloadType.Flag, <<>>)

PauseFrame ==
  RemoteFrame(MessageType.PausePublicationMessage, 0, RemoteIds[1], PayloadType.Flag, <<>>)

FlowFrames == { StartFrame, PauseFrame }

AckFrame(payload) ==
  RemoteFrame(MessageType.AcknowledgeMessage, 0, RemoteIds[1], PayloadType.Output, payload)

NotJson == << 111, 111, 112, 115 >>

EmptyObjectJson == << 123, 125 >>

\* Acknowledgements of 0..MaxAck, one without payload, one whose JSON lacks the
\* field and one that is not JSON.
AcknowledgeFrames ==
  { AckFrame(p) : p \in { AckJson(n) : n \in 0..MaxAck } \cup { <<>>, EmptyObjectJson, NotJson } }

ClosedFrame(payload) ==
  RemoteFrame(MessageType.ChannelClosedMessage, 0, RemoteIds[1], PayloadType.Output, payload)

Done == << 100, 111, 110, 101 >>

\* Closures with Output "done", with Output "", without payload, with JSON
\* lacking Output and with text that is not JSON.
ChannelClosedFrames ==
  { ClosedFrame(p) : p \in { OutputJson(Done), OutputJson(<<>>), <<>>, EmptyObjectJson, NotJson } }

\* input_stream_data, a type of the vocabulary no case handles, and a type
\* outside the vocabulary.
OtherFrames ==
  { RemoteFrame(MessageType.InputStreamDataMessage, 0, RemoteIds[1], PayloadType.Output, << 97 >>),
    RemoteFrame(MessageType.TaskReplyMessage, 0, RemoteIds[1], PayloadType.Output, << 97 >>),
    RemoteFrame(<< 120 >>, 0, RemoteIds[1], PayloadType.Output, << 97 >>) }

InboundFrames ==
  OutputFrames \cup FlowFrames \cup AcknowledgeFrames \cup ChannelClosedFrames \cup OtherFrames

\* Arguments of the caller's operations and of the close event.
WriteTexts == { << 97 >>, << 233 >> }

Sizes == { << 80, 24 >> }

Reasons == { <<>>, << 98, 121, 101 >> }

(***************************************************************************)
(* The codec as the sessions call it.  A session decodes the frames the    *)
(* agent delivers and encodes acknowledgements, input and size messages    *)
(* carrying its counter; decode and encode are tabulated over these        *)
(* arguments.                                                              *)
(***************************************************************************)
InboundDecoded == [ data \in InboundFrames |-> decode(data) ]

AcknowledgeOf(outgoingSequenceNumber, messageType, messageId, messageSequenceNumber) ==
  [ MessageType    |-> MessageType.AcknowledgeMessage,
    SequenceNumber |-> Wide(outgoingSequenceNumber),
    PayloadType    |-> PayloadType.Output,
    Payload        |-> AckPayload(messageType, messageId, messageSequenceNumber) ]

InputOf(outgoingSequenceNumber, text) ==
  [ MessageType    |-> MessageType.InputStreamDataMessage,
    SequenceNumber |-> Wide(outgoingSequenceNumber),
    Payload        |-> text,
    PayloadType    |-> PayloadType.Output ]

SizeOf(outgoingSequenceNumber, cols, rows) ==
  [ MessageType    |-> MessageType.InputStreamDataMessage,
    SequenceNumber |-> Wide(outgoingSequenceNumber),
    Payload        |-> SizePayload(cols, rows),
    PayloadType    |-> PayloadType.Size ]

SessionMessages ==
  { AcknowledgeOf(n, m.MessageType, m.MessageId, m.SequenceNumber) :
      n \in 0..MaxSeq, m \in { InboundDecoded[d] : d \in OutputFrames } }
  \cup { InputOf(n, text) : n \in 0..MaxSeq, text \in WriteTexts }
  \cup { SizeOf(n, size[1], size[2]) : n \in 0..MaxSeq, size \in Sizes }

SessionEncoded ==
  [ message \in SessionMessages, uuid \in Uuids, now \in SessionNows |->
      encode(message, uuid, now) ]

(***************************************************************************)
(* aws-ssm-session.ts: the first AWSSSMSession class (lines 12-180)        *)
(* A handler is an operator from the session s (and the socket's           *)
(* readyState rs) to [s, fx]: the session after it and what it did.        *)
(***************************************************************************)
acknowledgeMessage1(s, fx, rs, messageType, messageId, messageSequenceNumber, uuid, now) ==
  wsSendEncoded(fx, rs, SessionEncoded[AcknowledgeOf(s.outgoingSequenceNumber, messageType,
                                                     messageId, messageSequenceNumber),
                                       uuid, now])

\* Mutant: the 'output' event is emitted without consulting outputMap.
OutputStreamData1_NoDedup(s, acked, message) ==
  IF acked.thrown # "" THEN [ s |-> s, fx |-> acked ]
  ELSE [ s  |-> [ s EXCEPT !.outputMap = MapSet(@, message.MessageId, message.Payload) ],
         fx |-> emit(acked, "output", message.Payload) ]

\* case output_stream_data after its first statement: acked is what
\* acknowledgeMessage( message ) did; if it threw, the case ends there.
OutputStreamData1(s, acked, message) ==
  IF acked.thrown # "" THEN [ s |-> s, fx |-> acked ]
  ELSE [ s  |-> [ s EXCEPT !.outputMap = MapSet(@, message.MessageId, message.Payload) ],
         fx |-> IF message.MessageId \notin DOMAIN s.outputMap
                THEN emit(acked, "output", message.Payload) ELSE acked ]

\* Mutant: the counter restarts from 0 whatever has been acknowledged.
StartPublication1_FromZero(s, fx) ==
  [ s  |-> [ s EXCEPT !.outgoingSequenceNumber = 0, !.paused = FALSE ],
    fx |-> emit(fx, "resume", <<>>) ]

StartPublication1(s, fx) ==
  [ s  |-> [ s EXCEPT !.outgoingSequenceNumber =
                        IF s.lastAcknowledgedSequenceNumber # undefined
                        THEN s.lastAcknowledgedSequenceNumber[1] ELSE 0,
                      !.paused = FALSE ],
    fx |-> emit(fx, "resume", <<>>) ]

\* Mutant: the flag is set but no 'pause' event is emitted.
PausePublication1_Silent(s, fx) == [ s |-> [ s EXCEPT !.paused = TRUE ], fx |-> fx ]

PausePublication1(s, fx) ==
  [ s |-> [ s EXCEPT !.paused = TRUE ], fx |-> emit(fx, "pause", <<>>) ]

\* Mutant: the acknowledged number is stored without comparing it.
Acknowledge1_NoCompare(s, fx, message) ==
  IF message.Payload = <<>> THEN [ s |-> s, fx |-> fx ]
  ELSE LET payloadData == JSONparse(message.Payload)
       IN  IF payloadData.threw THEN [ s |-> s, fx |-> [ fx EXCEPT !.thrown = "SyntaxError" ] ]
           ELSE IF "AcknowledgedMessageSequenceNumber" \notin DOMAIN payloadData.value
             THEN [ s |-> s, fx |-> fx ]
           ELSE [ s  |-> [ s EXCEPT !.lastAcknowledgedSequenceNumber =
                             << payloadData.value.AcknowledgedMessageSequenceNumber >> ],
                  fx |-> fx ]

\* A payload without the field makes payloadData.AcknowledgedMessageSequenceNumber
\* undefined: an unset lastAcknowledgedSequenceNumber is assigned undefined, a
\* set one compares false against it.
\* Mutant: an acknowledgement also moves the counter to the acknowledged number.
Acknowledge1_Rewinds(s, fx, message) ==
  IF message.Payload = <<>> THEN [ s |-> s, fx |-> fx ]
  ELSE LET payloadData == JSONparse(message.Payload)
       IN  IF payloadData.threw THEN [ s |-> s, fx |-> [ fx EXCEPT !.thrown = "SyntaxError" ] ]
           ELSE IF "AcknowledgedMessageSequenceNumber" \notin DOMAIN payloadData.value
             THEN [ s |-> s, fx |-> fx ]
           ELSE [ s  |-> [ s EXCEPT !.lastAcknowledgedSequenceNumber =
                             << payloadData.value.AcknowledgedMessageSequenceNumber >>,
                           !.outgoingSequenceNumber =
                             payloadData.value.AcknowledgedMessageSequenceNumber ],
                  fx |-> fx ]

Acknowledge1(s, fx, message) ==
  IF message.Payload = <<>> THEN [ s |-> s, fx |-> fx ]
  ELSE LET payloadData == JSONparse(message.Payload)
           last        == s.lastAcknowledgedSequenceNumber
       IN  IF payloadData.threw THEN [ s |-> s, fx |-> [ fx EXCEPT !.thrown = "SyntaxError" ] ]
           ELSE IF "AcknowledgedMessageSequenceNumber" \notin DOMAIN payloadData.value
             THEN [ s |-> s, fx |-> fx ]
           ELSE IF last = undefined
                   \/ last[1] < payloadData.value.AcknowledgedMessageSequenceNumber
             THEN [ s  |-> [ s EXCEPT !.lastAcknowledgedSequenceNumber =
                               << payloadData.value.AcknowledgedMessageSequenceNumber >> ],
                    fx |-> fx ]
           ELSE [ s |-> s, fx |-> fx ]

\* Mutant: connectionTerminated is set before the payload is parsed.
ChannelClosed1_TerminateFirst(s, fx, message) ==
  LET terminated == [ s EXCEPT !.connectionTerminated = TRUE ] IN
  IF message.Payload = <<>> THEN [ s |-> terminated, fx |-> fx ]
  ELSE LET payloadData == JSONparse(message.Payload)
       IN  IF payloadData.threw
             THEN [ s |-> terminated, fx |-> [ fx EXCEPT !.thrown = "SyntaxError" ] ]
           ELSE IF "Output" \notin DOMAIN payloadData.value
             THEN [ s |-> terminated, fx |-> [ fx EXCEPT !.thrown = "TypeError" ] ]
           ELSE IF Len(payloadData.value.Output) > 0
             THEN [ s  |-> terminated,
                    fx |-> emit(fx, "output", payloadData.value.Output \o << 13, 10 >>) ]
           ELSE [ s |-> terminated, fx |-> fx ]

\* Mutant: the final output is emitted without the line terminator.
ChannelClosed1_NoNewline(s, fx, message) ==
  LET terminated == [ s EXCEPT !.connectionTerminated = TRUE ] IN
  IF message.Payload = <<>> THEN [ s |-> terminated, fx |-> fx ]
  ELSE LET payloadData == JSONparse(message.Payload)
       IN  IF payloadData.threw THEN [ s |-> s, fx |-> [ fx EXCEPT !.thrown = "SyntaxError" ] ]
           ELSE IF "Output" \notin DOMAIN payloadData.value
             THEN [ s |-> s, fx |-> [ fx EXCEPT !.thrown = "TypeError" ] ]
           ELSE IF Len(payloadData.value.Output) > 0
             THEN [ s |-> terminated, fx |-> emit(fx, "output", payloadData.value.Output) ]
           ELSE [ s |-> terminated, fx |-> fx ]

ChannelClosed1(s, fx, message) ==
  LET terminated == [ s EXCEPT !.connectionTerminated = TRUE ] IN
  IF message.Payload = <<>> THEN [ s |-> terminated, fx |-> fx ]
  ELSE LET payloadData == JSONparse(message.Payload)
       IN  IF payloadData.threw THEN [ s |-> s, fx |-> [ fx EXCEPT !.thrown = "SyntaxError" ] ]
           ELSE IF "Output" \notin DOMAIN payloadData.value
             THEN [ s |-> s, fx |-> [ fx EXCEPT !.thrown = "TypeError" ] ]
           ELSE IF Len(payloadData.value.Output) > 0
             THEN [ s  |-> terminated,
                    fx |-> emit(fx, "output", payloadData.value.Output \o << 13, 10 >>) ]
           ELSE [ s |-> terminated, fx |-> fx ]

\* Mutant: 'connect' is emitted before the handshake is sent.
onopen1_ConnectFirst(s, rs, requestId) ==
  [ s  |-> s,
    fx |-> wsSend(emit(NoFx, "connect", <<>>), rs, "text",
                  HandshakeText(UuidString(requestId), tokenValue)) ]

onopen1(s, rs, requestId) ==
  LET sent == wsSend(NoFx, rs, "text", HandshakeText(UuidString(requestId), tokenValue))
  IN  [ s |-> s, fx |-> IF sent.thrown # "" THEN sent ELSE emit(sent, "connect", <<>>) ]

\* Mutant: case input_stream_data lacks its break and falls through into
\* case channel_closed.
switch1_FallThrough(s, rs, message, uuid, now) ==
  CASE message.MessageType = MessageType.OutputStreamDataMessage ->
         OutputStreamData1(s, acknowledgeMessage1(s, NoFx, rs, message.MessageType,
                                                  message.MessageId, message.SequenceNumber,
                                                  uuid, now),
                           message)
    [] message.MessageType = MessageType.StartPublicationMessage -> StartPublication1(s, NoFx)
    [] message.MessageType = MessageType.PausePublicationMessage -> PausePublication1(s, NoFx)
    [] message.MessageType = MessageType.AcknowledgeMessage -> Acknowledge1(s, NoFx, message)
    [] message.MessageType = MessageType.InputStreamDataMessage -> ChannelClosed1(s, NoFx, message)
    [] message.MessageType = MessageType.ChannelClosedMessage -> ChannelClosed1(s, NoFx, message)
    [] OTHER -> [ s |-> s, fx |-> NoFx ]

\* switch ( message.MessageType )
switch1(s, rs, message, uuid, now) ==
  CASE message.MessageType = MessageType.OutputStreamDataMessage ->
         OutputStreamData1(s, acknowledgeMessage1(s, NoFx, rs, message.MessageType,
                                                  message.MessageId, message.SequenceNumber,
                                                  uuid, now),
                           message)
    [] message.MessageType = MessageType.StartPublicationMessage -> StartPublication1(s, NoFx)
    [] message.MessageType = MessageType.PausePublicationMessage -> PausePublication1(s, NoFx)
    [] message.MessageType = MessageType.AcknowledgeMessage -> Acknowledge1(s, NoFx, message)
    [] message.MessageType = MessageType.InputStreamDataMessage -> [ s |-> s, fx |-> NoFx ]
    [] message.MessageType = MessageType.ChannelClosedMessage -> ChannelClosed1(s, NoFx, message)
    [] OTHER -> [ s |-> s, fx |-> NoFx ]

onmessage1(s, rs, data, uuid, now) == switch1(s, rs, InboundDecoded[data], uuid, now)

onclose1(s, reason) ==
  [ s |-> [ s EXCEPT !.connectionClosed = TRUE ], fx |-> emit(NoFx, "disconnect", reason) ]

\* Mutant: send returns early while paused is set.
send1_BlockedWhilePaused(s, rs, message) ==
  IF message.threw THEN [ s |-> s, fx |-> [ NoFx EXCEPT !.thrown = "Error" ] ]
  ELSE IF rs # 1 \/ s.paused THEN [ s |-> s, fx |-> NoFx ]
  ELSE [ s  |-> [ s EXCEPT !.outgoingSequenceNumber = @ + 1 ],
         fx |-> wsSend(NoFx, rs, "binary", message.data) ]

\* Mutant: the frame is sent but the counter is not incremented.
send1_NoIncrement(s, rs, message) ==
  IF message.threw THEN [ s |-> s, fx |-> [ NoFx EXCEPT !.thrown = "Error" ] ]
  ELSE IF rs # 1 THEN [ s |-> s, fx |-> NoFx ]
  ELSE [ s |-> s, fx |-> wsSend(NoFx, rs, "binary", message.data) ]

\* send( message ): message is encode's result, computed before the call.
send1(s, rs, message) ==
  IF message.threw THEN [ s |-> s, fx |-> [ NoFx EXCEPT !.thrown = "Error" ] ]
  ELSE IF rs # 1 THEN [ s |-> s, fx |-> NoFx ]
  ELSE [ s  |-> [ s EXCEPT !.outgoingSequenceNumber = @ + 1 ],
         fx |-> wsSend(NoFx, rs, "binary", message.data) ]

write1(s, rs, text, uuid, now) ==
  LET data == InputOf(s.outgoingSequenceNumber, text)
  IN  send1(s, rs, SessionEncoded[data, uuid, now])

ping1(s, rs) == [ s |-> s, fx |-> wsSend(NoFx, rs, "text", << 112, 105, 110, 103 >>) ]

setSize1(s, rs, cols, rows, uuid, now) ==
  LET message == SizeOf(s.outgoingSequenceNumber, cols, rows)
  IN  send1(s, rs, SessionEncoded[message, uuid, now])

(***************************************************************************)
(* aws-ssm-session.ts: the second AWSSSMSession class (lines 193-325)      *)
(***************************************************************************)
acknowledgeMessage2(s, fx, rs, messageType, messageId, messageSequenceNumber, uuid, now) ==
  wsSendEncoded(fx, rs, SessionEncoded[AcknowledgeOf(s.outgoingSequenceNumber, messageType,
                                                     messageId, messageSequenceNumber),
                                       uuid, now])

OutputStreamData2(s, acked, message) ==
  IF acked.thrown # "" THEN [ s |-> s, fx |-> acked ]
  ELSE [ s  |-> [ s EXCEPT !.outputMap = MapSet(@, message.MessageId, message.Payload) ],
         fx |-> IF message.MessageId \notin DOMAIN s.outputMap
                THEN emit(acked, "output", message.Payload) ELSE acked ]

ChannelClosed2(s, fx, message) ==
  LET terminated == [ s EXCEPT !.connectionTerminated = TRUE ] IN
  IF message.Payload = <<>> THEN [ s |-> terminated, fx |-> fx ]
  ELSE LET payloadData == JSONparse(message.Payload)
       IN  IF payloadData.threw THEN [ s |-> s, fx |-> [ fx EXCEPT !.thrown = "SyntaxError" ] ]
           ELSE IF "Output" \notin DOMAIN payloadData.value
             THEN [ s |-> s, fx |-> [ fx EXCEPT !.thrown = "TypeError" ] ]
           ELSE IF Len(payloadData.value.Output) > 0
             THEN [ s  |-> terminated,
                    fx |-> emit(fx, "output", payloadData.value.Output \o << 13, 10 >>) ]
           ELSE [ s |-> terminated, fx |-> fx ]

onopen2(s, rs, requestId) ==
  LET sent == wsSend(NoFx, rs, "text", HandshakeText(UuidString(requestId), tokenValue))
  IN  [ s |-> s, fx |-> IF sent.thrown # "" THEN sent ELSE emit(sent, "connect", <<>>) ]

switch2(s, rs, message, uuid, now) ==
  CASE message.MessageType = MessageType.OutputStreamDataMessage ->
         OutputStreamData2(s, acknowledgeMessage2(s, NoFx, rs, message.MessageType,
                                                  message.MessageId, message.SequenceNumber,
                                                  uuid, now),
                           message)
    [] message.MessageType \in { MessageType.InputStreamDataMessage,
                                 MessageType.StartPublicationMessage,
                                 MessageType.PausePublicationMessage,
                                 MessageType.AcknowledgeMessage } -> [ s |-> s, fx |-> NoFx ]
    [] message.MessageType = MessageType.ChannelClosedMessage -> ChannelClosed2(s, NoFx, message)
    [] OTHER -> [ s |-> s, fx |-> NoFx ]

onmessage2(s, rs, data, uuid, now) == switch2(s, rs, InboundDecoded[data], uuid, now)

onclose2(s, reason) ==
  [ s |-> [ s EXCEPT !.connectionClosed = TRUE ], fx |-> emit(NoFx, "disconnect", reason) ]

\* send( message ) of the second class: no readyState test; the counter is
\* incremented before webSocket.send is called (and stays so if that throws).
send2(s, rs, message) ==
  IF message.threw THEN [ s |-> s, fx |-> [ NoFx EXCEPT !.thrown = "Error" ] ]
  ELSE [ s  |-> [ s EXCEPT !.outgoingSequenceNumber = @ + 1 ],
         fx |-> wsSend(NoFx, rs, "binary", message.data) ]

write2(s, rs, text, uuid, now) ==
  LET data == InputOf(s.outgoingSequenceNumber, text)
  IN  send2(s, rs, SessionEncoded[data, uuid, now])

ping2(s, rs) == [ s |-> s, fx |-> wsSend(NoFx, rs, "text", << 112, 105, 110, 103 >>) ]

setSize2(s, rs, cols, rows, uuid, now) ==
  LET message == SizeOf(s.outgoingSequenceNumber, cols, rows)
  IN  send2(s, rs, SessionEncoded[message, uuid, now])

(***************************************************************************)
(* The sessions at work.  A program constructs a session of one of the two *)
(* classes; the socket, the agent and the caller then drive it.            *)
(***************************************************************************)
Init == InitCodecIdle /\ \E class \in { 1, 2 } : InitSession({ class })

onopen(class, s, rs, requestId) ==
  IF class = 1 THEN onopen1(s, rs, requestId) ELSE onopen2(s, rs, requestId)

onmessage(class, s, rs, data, uuid, now) ==
  IF class = 1 THEN onmessage1(s, rs, data, uuid, now) ELSE onmessage2(s, rs, data, uuid, now)

onclose(class, s, reason) ==
  IF class = 1 THEN onclose1(s, reason) ELSE onclose2(s, reason)

write(class, s, rs, text, uuid, now) ==
  IF class = 1 THEN write1(s, rs, text, uuid, now) ELSE write2(s, rs, text, uuid, now)

setSize(class, s, rs, cols, rows, uuid, now) ==
  IF class = 1 THEN setSize1(s, rs, cols, rows, uuid, now)
  ELSE setSize2(s, rs, cols, rows, uuid, now)

ping(class, s, rs) == IF class = 1 THEN ping1(s, rs) ELSE ping2(s, rs)

\* The step in which operation op with argument data yields result[c] on the
\* session of class c.
Apply(op, data, result) ==
  /\ call' = [ op |-> op, data |-> data ]
  /\ session' = [ c \in DOMAIN session |-> result[c].s ]
  /\ effect' = [ c \in DOMAIN session |-> result[c].fx ]
  /\ UNCHANGED codec

\* The socket opens: readyState is OPEN when onopen runs.
Open ==
  /\ readyState = 0
  /\ readyState' = 1
  /\ \E requestId \in Uuids :
       Apply("onopen", <<>>, [ c \in DOMAIN session |-> onopen(c, session[c], 1, requestId) ])

\* The socket closes (or fails to connect): readyState is CLOSED when onclose runs.
TransportClose ==
  /\ readyState # 3
  /\ readyState' = 3
  /\ \E reason \in Reasons :
       Apply("onclose", reason, [ c \in DOMAIN session |-> onclose(c, session[c], reason) ])

\* A frame arrives; the socket delivers it while OPEN or CLOSING.
Message ==
  /\ readyState \in { 1, 2 }
  /\ UNCHANGED readyState
  /\ \E data \in InboundFrames, uuid \in Uuids, now \in SessionNows :
       Apply("onmessage", data,
             [ c \in DOMAIN session |-> onmessage(c, session[c], readyState, data, uuid, now) ])

Write ==
  /\ \A c \in DOMAIN session : session[c].outgoingSequenceNumber < MaxSeq
  /\ UNCHANGED readyState
  /\ \E text \in WriteTexts, uuid \in Uuids, now \in SessionNows :
       Apply("write", text,
             [ c \in DOMAIN session |-> write(c, session[c], readyState, text, uuid, now) ])

SetSize ==
  /\ \A c \in DOMAIN session : session[c].outgoingSequenceNumber < MaxSeq
  /\ UNCHANGED readyState
  /\ \E size \in Sizes, uuid \in Uuids, now \in SessionNows :
       Apply("setSize", size,
             [ c \in DOMAIN session |->
                 setSize(c, session[c], readyState, size[1], size[2], uuid, now) ])

Ping ==
  /\ UNCHANGED readyState
  /\ Apply("ping", <<>>, [ c \in DOMAIN session |-> ping(c, session[c], readyState) ])

\* close(): webSocket.close() starts the closing handshake.
Close ==
  /\ readyState' = IF readyState \in { 0, 1 } THEN 2 ELSE readyState
  /\ Apply("close", <<>>, [ c \in DOMAIN session |-> [ s |-> session[c], fx |-> NoFx ] ])

Next == Open \/ TransportClose \/ Message \/ Write \/ SetSize \/ Ping \/ Close

Spec == Init /\ [][Next]_vars

(***************************************************************************)
(* One session of each class side by side: both sockets see the same       *)
(* events, both sessions the same calls, and the agent delivers the same   *)
(* frames, of the types both classes react to, to both.                    *)
(***************************************************************************)
PairFrames == OutputFrames \cup ChannelClosedFrames \cup OtherFrames

InitPair == InitCodecIdle /\ InitSession({ 1, 2 })

MessagePair ==
  /\ readyState \in { 1, 2 }
  /\ UNCHANGED readyState
  /\ \E data \in PairFrames, uuid \in Uuids, now \in SessionNows :
       Apply("onmessage", data,
             [ c \in DOMAIN session |-> onmessage(c, session[c], readyState, data, uuid, now) ])

NextPair == Open \/ TransportClose \/ MessagePair \/ Write \/ SetSize \/ Ping \/ Close

SpecPair == InitPair /\ [][NextPair]_vars

(***************************************************************************)
(* A program that either calls the codec directly or runs a session.       *)
(***************************************************************************)
InitAll == InitCodec \/ Init

NextAll == NextCodec \/ (DOMAIN session # {} /\ Next)

SpecAll == InitAll /\ [][NextAll]_vars

(***************************************************************************)
(* Properties                                                              *)
(***************************************************************************)
\* What a step is: the operation that runs in it and the frame it handles.
Ran(op) == call'.op = op

Handled(frames) == call'.op = "onmessage" /\ call'.data \in frames

Sends(trace) == SelectSeq(trace, LAMBDA e : e.kind = "send")

Emits(trace) == SelectSeq(trace, LAMBDA e : e.kind = "emit")

Emitted(name, data) == [ kind |-> "emit", name |-> name, data |-> data ]

\* Fields of a frame handed to the socket, read at their offsets.
TypeField(frame) ==
  SubSeq(frame, Offset.MessageType + 1, Offset.MessageType + Length.MessageType)

SequenceNumberField(frame) ==
  SubSeq(frame, Offset.SequenceNumber + 1, Offset.SequenceNumber + Length.SequenceNumber)

PayloadField(frame) == SubSeq(frame, Offset.Payload + 1, Len(frame))

IsAcknowledgeOf(e, received) ==
  /\ e.kind = "send" /\ e.name = "binary"
  /\ TypeField(e.data) = Pad(MessageType.AcknowledgeMessage, Length.MessageType)
  /\ PayloadField(e.data) = AckPayload(MessageType.OutputStreamDataMessage,
                                       received.MessageId, received.SequenceNumber)

\* C1: a session of either class answers every output_stream_data frame,
\* duplicates included, with exactly one acknowledge frame for that frame, sent
\* first; it emits 'output' with the frame's text after it exactly when no
\* earlier frame carried the MessageId, and never otherwise.  (outputMap holds
\* exactly the MessageIds received: an id enters it with its frame and no step
\* removes one.)
C1_AckEachOutputOnce ==
  [][ \A c \in DOMAIN session :
        LET old == DOMAIN session[c].outputMap
            new == DOMAIN session'[c].outputMap
            tr  == effect'[c].trace
        IN  /\ old \subseteq new
            /\ IF Handled(OutputFrames)
               THEN LET received == InboundDecoded[call'.data] IN
                    /\ new = old \cup { received.MessageId }
                    /\ effect'[c].thrown = ""
                    /\ Len(Sends(tr)) = 1
                    /\ IsAcknowledgeOf(tr[1], received)
                    /\ IF received.MessageId \in old THEN Emits(tr) = <<>>
                       ELSE /\ Emits(tr) = << Emitted("output", received.Payload) >>
                            /\ tr[2] = Emitted("output", received.Payload)
               ELSE new = old ]_vars

\* A duplicate has been answered: acknowledged again, nothing emitted.
C1_Witness ==
  \E c \in DOMAIN session :
    /\ call.op = "onmessage" /\ call.data \in OutputFrames
    /\ Len(effect[c].trace) = 1 /\ effect[c].trace[1].kind = "send"
    /\ Cardinality(DOMAIN session[c].outputMap) = 2

NumberedAck == [ n \in 0..MaxAck |-> AckFrame(AckJson(n)) ]

NumberedAcks == { NumberedAck[n] : n \in 0..MaxAck }

AckValue(data) == CHOOSE n \in 0..MaxAck : data = NumberedAck[n]

\* C2: in the first class lastAcknowledgedSequenceNumber is unset at first, an
\* acknowledge frame carrying n leaves it at the larger of n and its value (n
\* if unset), and no other step changes it: it never decreases and is the
\* maximum of the numbers acknowledged so far.
C2_AckMonotonic ==
  /\ (1 \in DOMAIN session => session[1].lastAcknowledgedSequenceNumber = undefined)
  /\ [][ 1 \in DOMAIN session =>
           LET old == session[1].lastAcknowledgedSequenceNumber
               new == session'[1].lastAcknowledgedSequenceNumber
           IN  /\ old # undefined => new # undefined /\ new[1] >= old[1]
               /\ IF Handled(NumberedAcks)
                  THEN new = << IF old # undefined /\ old[1] > AckValue(call'.data)
                                THEN old[1] ELSE AckValue(call'.data) >>
                  ELSE new = old ]_vars

\* A smaller number has been acknowledged after a larger one.
C2_Witness ==
  /\ 1 \in DOMAIN session
  /\ call.op = "onmessage" /\ call.data \in NumberedAcks
  /\ session[1].lastAcknowledgedSequenceNumber # undefined
  /\ AckValue(call.data) < session[1].lastAcknowledgedSequenceNumber[1]

\* C3: in the first class start_publication sets outgoingSequenceNumber to
\* lastAcknowledgedSequenceNumber if recorded (0 included) and to 0 otherwise,
\* whatever the counter and paused were; paused becomes false, exactly one
\* 'resume' event is emitted, nothing is sent and
\* lastAcknowledgedSequenceNumber keeps its value.
C3_StartPublicationResets ==
  [][ 1 \in DOMAIN session /\ Handled({ StartFrame }) =>
        LET last == session[1].lastAcknowledgedSequenceNumber IN
        /\ session'[1].outgoingSequenceNumber = IF last # undefined THEN last[1] ELSE 0
        /\ session'[1].paused = FALSE
        /\ effect'[1] = [ trace |-> << Emitted("resume", <<>>) >>, thrown |-> "" ]
        /\ session'[1].lastAcknowledgedSequenceNumber = last ]_vars

\* start_publication has set the counter to a recorded acknowledgement above 0.
C3_Witness ==
  /\ 1 \in DOMAIN session
  /\ call.op = "onmessage" /\ call.data = StartFrame
  /\ session[1].lastAcknowledgedSequenceNumber # undefined
  /\ session[1].lastAcknowledgedSequenceNumber[1] > 0
  /\ session[1].outgoingSequenceNumber = session[1].lastAcknowledgedSequenceNumber[1]

\* C4: in the first class outgoingSequenceNumber is 0 at first; a write or
\* setSize that hands a frame to the socket hands over exactly one, carrying
\* the counter's value in its SequenceNumber field, and adds 1 to the counter;
\* a write or setSize that sends nothing, the handshake, a ping and an
\* acknowledgement leave the counter as it was.
C4_CounterPerFrameSent ==
  /\ (1 \in DOMAIN session => session[1].outgoingSequenceNumber = 0)
  /\ [][ 1 \in DOMAIN session =>
           LET old == session[1].outgoingSequenceNumber
               new == session'[1].outgoingSequenceNumber
               tr  == effect'[1].trace
           IN  /\ Ran("write") \/ Ran("setSize") =>
                    IF tr = <<>> THEN new = old
                    ELSE /\ Len(tr) = 1 /\ tr[1].kind = "send" /\ tr[1].name = "binary"
                         /\ SequenceNumberField(tr[1].data) = Wide(0) \o Wide(old)
                         /\ TypeField(tr[1].data)
                              = Pad(MessageType.InputStreamDataMessage, Length.MessageType)
                         /\ new = old + 1
               /\ Ran("onopen") \/ Ran("ping") \/ Handled(OutputFrames) => new = old ]_vars

\* A second frame has been written: it carried 1 and the counter is 2.
C4_Witness ==
  /\ 1 \in DOMAIN session
  /\ call.op \in { "write", "setSize" }
  /\ effect[1].trace # <<>>
  /\ SequenceNumberField(effect[1].trace[1].data) = Wide(0) \o Wide(1)
  /\ session[1].outgoingSequenceNumber = 2

\* C5: whenever the socket is not OPEN, a write or setSize of a session of
\* either class is a no-op: no field of the session changes (the counter
\* included), nothing is handed to the socket and nothing is thrown.
C5_NotReadyNoOp ==
  [][ (Ran("write") \/ Ran("setSize")) /\ readyState # 1 =>
        \A c \in DOMAIN session : session'[c] = session[c] /\ effect'[c] = NoFx ]_vars

ClosedDone == ClosedFrame(OutputJson(Done))

ClosedEmptyOutput == ClosedFrame(OutputJson(<<>>))

ClosedNoPayload == ClosedFrame(<<>>)

\* The 'output' events channel_closed is to emit for the frame: the Output
\* text and "\r\n" if the text is not empty.
ClosingOutput(data) ==
  IF data = ClosedDone THEN << Emitted("output", Done \o << 13, 10 >>) >> ELSE <<>>

\* C6 as stated: every channel_closed frame leaves the session terminated,
\* with one 'output' event of the Output text and "\r\n" if that text is not
\* empty and none otherwise; nothing is sent and the counter keeps its value.
C6_ChannelClosedAlwaysTerminates ==
  [][ Handled(ChannelClosedFrames) =>
        \A c \in DOMAIN session :
          /\ session'[c].connectionTerminated
          /\ effect'[c].trace = ClosingOutput(call'.data)
          /\ session'[c].outgoingSequenceNumber = session[c].outgoingSequenceNumber ]_vars

\* C6 amended: a channel_closed frame whose payload is empty or is a JSON
\* object with a string Output sets terminated and changes nothing else, after
\* emitting one 'output' event of Output and "\r\n" if Output is not empty; a
\* frame whose payload is not JSON, or is JSON without Output, makes the handler
\* throw before terminated is set: no field changes and nothing is emitted.
\* In no case is a frame sent or the counter changed.
C6_ChannelClosedTerminates ==
  [][ Handled(ChannelClosedFrames) =>
        \A c \in DOMAIN session :
          IF call'.data \in { ClosedDone, ClosedEmptyOutput, ClosedNoPayload }
          THEN /\ session'[c] = [ session[c] EXCEPT !.connectionTerminated = TRUE ]
               /\ effect'[c] = [ trace |-> ClosingOutput(call'.data), thrown |-> "" ]
          ELSE /\ session'[c] = session[c]
               /\ effect'[c].trace = <<>>
               /\ effect'[c].thrown = IF call'.data = ClosedFrame(NotJson)
                                      THEN "SyntaxError" ELSE "TypeError" ]_vars

\* A closure with Output "done" has been handled: terminated, "done\r\n" emitted.
C6_Witness ==
  \E c \in DOMAIN session :
    /\ call.op = "onmessage" /\ call.data = ClosedDone
    /\ session[c].connectionTerminated
    /\ effect[c].trace = << Emitted("output", Done \o << 13, 10 >>) >>

\* C7: once a session of the first class is terminated, a frame delivered to
\* it emits no 'output', 'pause' or 'resume' event, sends nothing, and leaves
\* outgoingSequenceNumber, lastAcknowledgedSequenceNumber, paused and outputMap
\* as they were.
C7_ClosedIsTerminal ==
  [][ 1 \in DOMAIN session /\ session[1].connectionTerminated /\ Ran("onmessage") =>
        /\ \A i \in 1..Len(effect'[1].trace) :
             /\ effect'[1].trace[i].kind # "send"
             /\ effect'[1].trace[i].name \notin { "output", "pause", "resume" }
        /\ session'[1].outgoingSequenceNumber = session[1].outgoingSequenceNumber
        /\ session'[1].lastAcknowledgedSequenceNumber = session[1].lastAcknowledgedSequenceNumber
        /\ session'[1].paused = session[1].paused
        /\ session'[1].outputMap = session[1].outputMap ]_vars

FlowEvents(trace) ==
  SelectSeq(trace, LAMBDA e : e.kind = "emit" /\ e.name \in { "pause", "resume" })

\* C8: in the first class paused is false at first; a pause_publication frame
\* sets it and emits exactly one 'pause' event, a start_publication frame
\* clears it and emits exactly one 'resume' event, and no other step changes it
\* or emits either event: paused is true exactly when the last of these frames
\* was pause_publication, and the events follow the order of the frames.
C8_PausedFollowsFlowControl ==
  /\ (1 \in DOMAIN session => session[1].paused = FALSE)
  /\ [][ 1 \in DOMAIN session =>
           IF Handled({ PauseFrame })
           THEN /\ session'[1].paused = TRUE
                /\ FlowEvents(effect'[1].trace) = << Emitted("pause", <<>>) >>
           ELSE IF Handled({ StartFrame })
           THEN /\ session'[1].paused = FALSE
                /\ FlowEvents(effect'[1].trace) = << Emitted("resume", <<>>) >>
           ELSE /\ session'[1].paused = session[1].paused
                /\ FlowEvents(effect'[1].trace) = <<>> ]_vars

\* pause_publication has been handled: paused is set, one 'pause' was emitted.
C8_Witness ==
  /\ 1 \in DOMAIN session
  /\ call.op = "onmessage" /\ call.data = PauseFrame
  /\ session[1].paused
  /\ effect[1].trace = << Emitted("pause", <<>>) >>

\* C9: for a message whose type fits the 32-byte slot, decode( encode( m ) )
\* has the MessageType, SequenceNumber, PayloadType and Payload of m, whatever
\* the code units of the payload.
C9_RoundTrip ==
  codec.pc = "decoded" =>
    /\ codec.decoded.MessageType = codec.message.MessageType
    /\ WideEquals(codec.message.SequenceNumber, codec.decoded.SequenceNumber)
    /\ codec.decoded.PayloadType = codec.message.PayloadType
    /\ codec.decoded.Payload = codec.message.Payload

\* The 16 bytes of the MessageId field of a frame.
MessageIdField(frame) == SubSeq(frame, Offset.MessageId + 1, Offset.MessageId + Length.MessageId)

FlagsField(frame) == SubSeq(frame, Offset.Flags + 1, Offset.Flags + Length.Flags)

\* The binary frames the last step handed to the socket, per class.
BinaryFrames(c) ==
  { effect[c].trace[i].data :
      i \in { k \in 1..Len(effect[c].trace) :
                effect[c].trace[k].kind = "send" /\ effect[c].trace[k].name = "binary" } }

\* C11: the Flags field of a frame encode returns is 1 when the message's
\* SequenceNumber is 0 and 0 when it is greater (bit 1 is never set); so it is
\* in every frame a session hands to the socket, where an acknowledge frame
\* carries the session's outgoingSequenceNumber.
C11_FlagsFirstBit ==
  /\ codec.pc \in { "encoded", "decoded" } =>
       FlagsField(codec.data)
         = Wide(0) \o Wide(IF WideNorm(codec.message.SequenceNumber) = <<>> THEN 1 ELSE 0)
  /\ \A c \in DOMAIN session : \A frame \in BinaryFrames(c) :
       /\ FlagsField(frame)
            = Wide(0) \o Wide(IF SequenceNumberField(frame) = Wide(0) \o Wide(0) THEN 1 ELSE 0)
       /\ TypeField(frame) = Pad(MessageType.AcknowledgeMessage, Length.MessageType) =>
            SequenceNumberField(frame) = Wide(0) \o Wide(session[c].outgoingSequenceNumber)

\* An acknowledge frame has been sent by a session whose counter is above 0:
\* its Flags field is 0.
C11_Witness ==
  \E c \in DOMAIN session : \E frame \in BinaryFrames(c) :
    /\ TypeField(frame) = Pad(MessageType.AcknowledgeMessage, Length.MessageType)
    /\ session[c].outgoingSequenceNumber > 0
    /\ FlagsField(frame) = Wide(0) \o Wide(0)

\* C12: encode of a message whose type is longer than the 32-byte slot throws
\* and returns no buffer, and encode throws for no other message.
C12_OversizeTypeThrows ==
  /\ codec.pc # "input" /\ Len(codec.message.MessageType) > Length.MessageType =>
       codec.pc = "threw" /\ codec.data = <<>>
  /\ codec.pc = "threw" => Len(codec.message.MessageType) > Length.MessageType

\* encode has thrown on a type of 33 characters.
C12_Witness ==
  /\ codec.pc = "threw"
  /\ Len(codec.message.MessageType) = Length.MessageType + 1
  /\ codec.data = <<>>

\* acknowledge and channel_closed frames whose payload is not JSON, or is
\* JSON without the field the case reads.
MalformedFrames ==
  { AckFrame(NotJson), AckFrame(EmptyObjectJson),
    ClosedFrame(NotJson), ClosedFrame(EmptyObjectJson) }

\* C13: an acknowledge or channel_closed frame with a malformed control
\* payload changes no field of a session of either class (terminated, closed,
\* the counter, the recorded acknowledgement, paused and outputMap included)
\* and neither emits nor sends anything; the session being as it was, every
\* later frame is handled as if this one had not arrived.
C13_MalformedPayloadIsolated ==
  [][ Handled(MalformedFrames) =>
        \A c \in DOMAIN session :
          session'[c] = session[c] /\ effect'[c].trace = <<>> ]_vars

\* A channel_closed frame that is not JSON has been handled: JSON.parse threw
\* and the session is not terminated.
C13_Witness ==
  \E c \in DOMAIN session :
    /\ call.op = "onmessage" /\ call.data = ClosedFrame(NotJson)
    /\ effect[c].thrown = "SyntaxError"
    /\ ~session[c].connectionTerminated

\* The handshake texts a session may send: one per RequestId uuidv4 may return.
Handshakes ==
  { [ kind |-> "send", name |-> "text", data |-> HandshakeText(UuidString(requestId), tokenValue) ] :
      requestId \in Uuids }

\* C14: nothing is handed to the socket before it opens; when it opens a
\* session of either class sends the JSON handshake and then emits 'connect',
\* no field changing; when it closes the session sets connectionClosed and
\* emits exactly one 'disconnect' with the close reason.  connectionClosed is
\* changed by onclose only and connectionTerminated by channel_closed only,
\* and neither goes back to false.
C14_LifecycleOrdering ==
  [][ \A c \in DOMAIN session :
        /\ readyState' = 0 => Sends(effect'[c].trace) = <<>>
        /\ Ran("onopen") =>
             /\ Len(effect'[c].trace) = 2 /\ effect'[c].thrown = ""
             /\ effect'[c].trace[1] \in Handshakes
             /\ effect'[c].trace[2] = Emitted("connect", <<>>)
             /\ session'[c] = session[c]
        /\ Ran("onclose") =>
             /\ session'[c] = [ session[c] EXCEPT !.connectionClosed = TRUE ]
             /\ effect'[c] = [ trace |-> << Emitted("disconnect", call'.data) >>, thrown |-> "" ]
        /\ ~Ran("onclose") => session'[c].connectionClosed = session[c].connectionClosed
        /\ ~Handled(ChannelClosedFrames) =>
             session'[c].connectionTerminated = session[c].connectionTerminated
        /\ session[c].connectionClosed => session'[c].connectionClosed
        /\ session[c].connectionTerminated => session'[c].connectionTerminated ]_vars

\* The socket of a terminated session has closed with reason "bye": both flags
\* are set and one 'disconnect' carried the reason.
C14_Witness ==
  \E c \in DOMAIN session :
    /\ call.op = "onclose" /\ call.data = << 98, 121, 101 >>
    /\ session[c].connectionClosed /\ session[c].connectionTerminated
    /\ effect[c].trace = << Emitted("disconnect", << 98, 121, 101 >>) >>

\* The UTF-8 bytes of a code point.
Utf8Of(cp) ==
  IF cp < 128 THEN << cp >>
  ELSE IF cp < 2048 THEN << 192 + (cp \div 64), 128 + (cp % 64) >>
  ELSE IF cp < 65536
         THEN << 224 + (cp \div 4096), 128 + ((cp \div 64) % 64), 128 + (cp % 64) >>
  ELSE << 240 + (cp \div 262144), 128 + ((cp \div 4096) % 64),
          128 + ((cp \div 64) % 64), 128 + (cp % 64) >>

IsHighSurrogate(u) == u >= 55296 /\ u <= 56319

IsLowSurrogate(u) == u >= 56320 /\ u <= 57343

\* The UTF-8 encoding of a string (TextEncoder): a surrogate pair is one code
\* point, a lone surrogate is U+FFFD.
RECURSIVE Utf8Encode(_)
Utf8Encode(str) ==
  IF str = <<>> THEN <<>>
  ELSE IF Len(str) >= 2 /\ IsHighSurrogate(str[1]) /\ IsLowSurrogate(str[2])
         THEN Utf8Of(65536 + (str[1] - 55296) * 1024 + (str[2] - 56320))
              \o Utf8Encode(SubSeq(str, 3, Len(str)))
  ELSE IF IsHighSurrogate(str[1]) \/ IsLowSurrogate(str[1])
         THEN Utf8Of(65533) \o Utf8Encode(Tail(str))
  ELSE Utf8Of(str[1]) \o Utf8Encode(Tail(str))

HeaderLengthField(frame) == SubSeq(frame, Offset.HL + 1, Offset.HL + Length.HL)

PayloadLengthField(frame) ==
  SubSeq(frame, Offset.PayloadLength + 1, Offset.PayloadLength + Length.PayloadLength)

\* C15: the buffer encode returns has 120 bytes and the bytes of the payload's
\* UTF-8 text after them, 116 in HeaderLength and the number of payload bytes
\* in PayloadLength.
C15_FrameLength ==
  codec.pc \in { "encoded", "decoded" } =>
    /\ Len(codec.data) = 120 + Len(Utf8Encode(codec.message.Payload))
    /\ HeaderLengthField(codec.data) = Wide(116)
    /\ PayloadLengthField(codec.data) = Wide(Len(Utf8Encode(codec.message.Payload)))
    /\ PayloadField(codec.data) = Utf8Encode(codec.message.Payload)

\* C16: an input_stream_data frame, and a frame of a type no case names
\* (inside or outside the vocabulary), changes no field of a session of either
\* class, emits nothing and sends nothing; the session being as it was, later
\* frames are handled as before.
C16_UnhandledTypesNoOp ==
  [][ Handled(OtherFrames) =>
        \A c \in DOMAIN session : session'[c] = session[c] /\ effect'[c] = NoFx ]_vars

\* A frame of a type no case names has reached a session that had sent input
\* and received output.
C16_Witness ==
  \E c \in DOMAIN session :
    /\ call.op = "onmessage" /\ call.data \in OtherFrames
    /\ InboundDecoded[call.data].MessageType = << 120 >>
    /\ session[c].outgoingSequenceNumber > 0
    /\ DOMAIN session[c].outputMap # {}
    /\ effect[c] = NoFx

\* C17: in the first class a write or setSize never changes paused, and on an
\* OPEN socket it hands over exactly one input_stream_data frame carrying the
\* counter and adds 1 to the counter whether paused is set or not.
C17_PauseIsAdvisory ==
  [][ 1 \in DOMAIN session /\ (Ran("write") \/ Ran("setSize")) =>
        /\ session'[1].paused = session[1].paused
        /\ readyState = 1 =>
             /\ effect'[1].thrown = ""
             /\ Len(effect'[1].trace) = 1
             /\ effect'[1].trace[1].kind = "send" /\ effect'[1].trace[1].name = "binary"
             /\ TypeField(effect'[1].trace[1].data)
                  = Pad(MessageType.InputStreamDataMessage, Length.MessageType)
             /\ SequenceNumberField(effect'[1].trace[1].data)
                  = Wide(0) \o Wide(session[1].outgoingSequenceNumber)
             /\ session'[1].outgoingSequenceNumber = session[1].outgoingSequenceNumber + 1 ]_vars

\* A paused session has written: the frame went out and the counter moved.
C17_Witness ==
  /\ 1 \in DOMAIN session
  /\ call.op \in { "write", "setSize" }
  /\ session[1].paused
  /\ Len(effect[1].trace) = 1 /\ effect[1].trace[1].kind = "send"
  /\ session[1].outgoingSequenceNumber > 0

\* C18: run side by side on the same calls, socket events and frames, the two
\* classes have handed the same frames to the socket and emitted the same
\* events in every step, and hold the same outgoingSequenceNumber, outputMap,
\* connectionClosed and connectionTerminated.
C18_ClassesAgree ==
  DOMAIN session = { 1, 2 } =>
    /\ effect[1].trace = effect[2].trace
    /\ session[1].outgoingSequenceNumber = session[2].outgoingSequenceNumber
    /\ session[1].outputMap = session[2].outputMap
    /\ session[1].connectionClosed = session[2].connectionClosed
    /\ session[1].connectionTerminated = session[2].connectionTerminated

\* The low 4 bytes of a wide number, most significant first: value modulo 2^32.
Low32(value) == [ k \in 1..4 |-> WideByte(value, 4 - k) ]

CreatedDateField(frame) ==
  SubSeq(frame, Offset.CreatedDate + 1, Offset.CreatedDate + Length.CreatedDate)

\* The 8-byte fields of a frame encode produced hold the value modulo 2^32 in
\* their low 4 bytes and zero in their high 4 bytes.
LongFieldsLow32 ==
  /\ SequenceNumberField(codec.data) = Wide(0) \o Low32(codec.message.SequenceNumber)
  /\ CreatedDateField(codec.data) = Wide(0) \o Low32(codec.now)
  /\ FlagsField(codec.data) \in { Wide(0) \o Wide(0), Wide(0) \o Wide(1) }

\* C19: encode writes SequenceNumber, CreatedDate and Flags into the low 4
\* bytes of their 8-byte fields (the value modulo 2^32) and leaves the high 4
\* bytes zero; and decode returns the SequenceNumber that was written, for
\* every sequence number from 0 to 2^32 - 1.
C19_LongFields32Bit ==
  /\ codec.pc \in { "encoded", "decoded" } => LongFieldsLow32
  /\ codec.pc = "decoded" /\ Len(WideNorm(codec.message.SequenceNumber)) <= 4 =>
       WideEquals(codec.message.SequenceNumber, codec.decoded.SequenceNumber)

\* The input_stream_data frames among the entries of a trace.
InputSends(trace) ==
  SelectSeq(trace, LAMBDA e : /\ e.kind = "send" /\ e.name = "binary"
                              /\ TypeField(e.data)
                                   = Pad(MessageType.InputStreamDataMessage, Length.MessageType))

\* C20: in the first class, whatever the step (a caller's operation, a socket
\* event or any inbound frame), an input_stream_data frame handed to the socket
\* carries the counter's value and the step adds 1 to the counter; a step that
\* changes the counter otherwise handles start_publication and leaves it at
\* lastAcknowledgedSequenceNumber (0 if unset); the counter starts at 0.  Hence
\* the numbers of successive frames differ by exactly 1 unless a
\* start_publication came between, and the first frame after one carries
\* lastAcknowledgedSequenceNumber or 0.
C20_SequenceNumbersConsecutive ==
  /\ (1 \in DOMAIN session => session[1].outgoingSequenceNumber = 0)
  /\ [][ 1 \in DOMAIN session =>
           \E sent \in { InputSends(effect'[1].trace) } :
             LET old == session[1].outgoingSequenceNumber
                 new == session'[1].outgoingSequenceNumber
             IN  IF sent # <<>>
                 THEN /\ Len(sent) = 1
                      /\ Ran("write") \/ Ran("setSize")
                      /\ SequenceNumberField(sent[1].data) = Wide(0) \o Wide(old)
                      /\ new = old + 1
                 ELSE new # old =>
                        /\ Handled({ StartFrame })
                        /\ new = IF session[1].lastAcknowledgedSequenceNumber # undefined
                                 THEN session[1].lastAcknowledgedSequenceNumber[1] ELSE 0 ]_vars

\* A write or setSize has sent a frame that carries 2, the acknowledgement
\* recorded (the counter's value after a start_publication), and the counter
\* has moved on to 3.
C20_Witness ==
  /\ 1 \in DOMAIN session
  /\ call.op \in { "write", "setSize" }
  /\ InputSends(effect[1].trace) # <<>>
  /\ session[1].lastAcknowledgedSequenceNumber = << 2 >>
  /\ SequenceNumberField(effect[1].trace[1].data) = Wide(0) \o Wide(2)
  /\ session[1].outgoingSequenceNumber = 3

====
